---- MODULE Spec2Model ----
(***************************************************************************)
(* Event management platform: the entity store (colleges, students,        *)
(* events), the registration -> attendance -> feedback workflow handlers   *)
(* of Backend/app/api/events.py, and the requests that run them.           *)
(*                                                                         *)
(* Every handler is a sequence of database queries.  A request in flight   *)
(* sits between two of its queries; requests of different threads          *)
(* interleave query by query.  The unique constraints of models.py are     *)
(* enforced by the store when a row is inserted.                           *)
(***************************************************************************)
EXTENDS Integers, Sequences, FiniteSets, Bags, TLC

VARIABLES
    colleges,       \* set of College ids
    students,       \* sequence of Student rows, the id is the index
    events,         \* sequence of Event rows, the id is the index
    registrations,  \* bag of <<student_id, event_id>>
    attendances,    \* bag of <<student_id, event_id>>
    feedbacks,      \* bag of <<student_id, event_id, rating>>
    inflight,       \* bag of requests between two of their queries
    resp            \* the response sent last

vars == <<colleges, students, events, registrations, attendances, feedbacks,
          inflight, resp>>

db == <<colleges, students, events, registrations, attendances, feedbacks>>

----------------------------------------------------------------------------
(* Bounds *)

MaxColleges == 1
MaxStudents == 2
MaxEvents == 1
MaxCapacity == 2
MaxInFlight == 2

----------------------------------------------------------------------------
(* HTTP status codes returned by the handlers *)

Created == 201
BadRequest == 400
Forbidden == 403
NotFound == 404
Conflict == 409
InternalError == 500

(* The two ends of the accepted rating range *)
MinRating == 1
MaxRating == 5

----------------------------------------------------------------------------
(* Inputs *)

NoId == 0                               \* student_id absent from the body
StudentIdInputs == 0..MaxStudents
EventIdInputs == 1..MaxEvents
CollegeIdInputs == 1..MaxColleges
EmailInputs == 1..MaxStudents
CapacityInputs == 1..MaxCapacity
NoRating == <<>>                        \* rating absent from the body
RatingInputs == {NoRating, <<0>>, <<MinRating>>, <<MaxRating>>, <<MaxRating + 1>>}

----------------------------------------------------------------------------
(* Queries *)

StudentIds == 1..Len(students)
EventIds == 1..Len(events)

\* faulty variant of student_exists: the handler goes on without the lookup
student_exists_unchecked(sid) == TRUE

\* Student.query.get(student_id) / Event.query.get(event_id) found a row
student_exists(sid) == sid \in StudentIds
event_exists(eid) == eid \in EventIds

\* faulty variants of existing_registration: the lookup never finds a row;
\* the lookup always finds one
existing_registration_never(sid, eid) == FALSE
existing_registration_always(sid, eid) == TRUE

\* Registration.query.filter_by(student_id, event_id).first() is not None
existing_registration(sid, eid) == CopiesIn(<<sid, eid>>, registrations) > 0

\* faulty variants of existing_attendance: the lookup always finds a row;
\* the lookup reads the registrations table
existing_attendance_always(sid, eid) == TRUE
existing_attendance_from_registrations(sid, eid) ==
    CopiesIn(<<sid, eid>>, registrations) > 0

\* Attendance.query.filter_by(student_id, event_id).first() is not None
existing_attendance(sid, eid) == CopiesIn(<<sid, eid>>, attendances) > 0

\* Feedback.query.filter_by(student_id, event_id).first() is not None
existing_feedback(sid, eid) ==
    \E f \in BagToSet(feedbacks) : f[1] = sid /\ f[2] = eid

RECURSIVE BagSum(_, _)
BagSum(B, S) ==
    IF S = {} THEN 0
    ELSE LET x == CHOOSE y \in S : TRUE
         IN  CopiesIn(x, B) + BagSum(B, S \ {x})

\* Registration.query.filter_by(event_id=event_id).count()
current_registrations(eid) ==
    BagSum(registrations, {p \in BagToSet(registrations) : p[2] = eid})

\* rows of Feedback for one (student, event) pair
feedback_rows(sid, eid) ==
    BagSum(feedbacks, {f \in BagToSet(feedbacks) : f[1] = sid /\ f[2] = eid})

\* Student.query.filter_by(email=email).first() is not None
existing_student(email) == \E i \in StudentIds : students[i].email = email

----------------------------------------------------------------------------
(* Constraints the store checks when a row is inserted *)

\* faulty variant of unique_registration: the table has no unique constraint
unique_registration_dropped(sid, eid) == TRUE

\* UniqueConstraint('student_id', 'event_id', name='unique_registration')
unique_registration(sid, eid) == CopiesIn(<<sid, eid>>, registrations) = 0

\* UniqueConstraint('student_id', 'event_id', name='unique_attendance')
unique_attendance(sid, eid) == CopiesIn(<<sid, eid>>, attendances) = 0

\* UniqueConstraint('student_id', 'event_id', name='unique_feedback')
unique_feedback(sid, eid) == ~existing_feedback(sid, eid)

\* Student.email unique=True
unique_email(email) == ~existing_student(email)

\* faulty variant of session_rollback: the row added to the session stays
session_rollback_keeping(table, row) == table (+) SetToBag({row})

\* db.session.rollback() after a failed commit: the table is as it was before
\* the row was added to the session
session_rollback(table, row) == table

----------------------------------------------------------------------------
(* Requests and responses *)

Request(op, pc, sid, eid, rating, cid, email) ==
    [op |-> op, pc |-> pc, sid |-> sid, eid |-> eid, rating |-> rating,
     college_id |-> cid, email |-> email]

Response(op, sid, eid, rating, status) ==
    [op |-> op, sid |-> sid, eid |-> eid, rating |-> rating, status |-> status]

NoResponse == Response("none", NoId, 0, NoRating, 0)

InFlight == BagCardinality(inflight)

Advance(req, pc) ==
    inflight' = (inflight (-) SetToBag({req})) (+) SetToBag({[req EXCEPT !.pc = pc]})

Finish(req, status) ==
    /\ inflight' = inflight (-) SetToBag({req})
    /\ resp' = Response(req.op, req.sid, req.eid, req.rating, status)

TypeOK ==
    /\ colleges \subseteq CollegeIdInputs
    /\ Len(students) <= MaxStudents
    /\ Len(events) <= MaxEvents
    /\ IsABag(registrations) /\ IsABag(attendances) /\ IsABag(feedbacks)
    /\ IsABag(inflight) /\ InFlight <= MaxInFlight

Init ==
    /\ colleges = {}
    /\ students = <<>>
    /\ events = <<>>
    /\ registrations = EmptyBag
    /\ attendances = EmptyBag
    /\ feedbacks = EmptyBag
    /\ inflight = EmptyBag
    /\ resp = NoResponse

----------------------------------------------------------------------------
(* Entity store handlers *)

CanStart(limit) == InFlight < limit

\* faulty variant of foreign_key_college: the store does not check the key
foreign_key_college_unenforced(cid) == TRUE

\* foreign key events.college_id -> colleges.id, checked by the store on insert
foreign_key_college(cid) == cid \in colleges

\* POST /colleges
create_college(limit, has_name) ==
    /\ CanStart(limit)
    /\ IF ~has_name
       THEN /\ resp' = Response("create_college", NoId, 0, NoRating, BadRequest)
            /\ UNCHANGED colleges
       ELSE /\ Cardinality(colleges) < MaxColleges
            /\ colleges' = colleges \cup {Cardinality(colleges) + 1}
            /\ resp' = Response("create_college", NoId, 0, NoRating, Created)
    /\ UNCHANGED <<students, events, registrations, attendances, feedbacks, inflight>>

PendingStudents ==
    BagSum(inflight, {q \in BagToSet(inflight) : q.op = "create_student"})

\* POST /students: the field check and the College lookup
create_student(limit, has_fields, cid, email) ==
    /\ CanStart(limit)
    /\ IF ~has_fields
       THEN /\ resp' = Response("create_student", NoId, 0, NoRating, BadRequest)
            /\ UNCHANGED inflight
       ELSE IF cid \notin colleges
       THEN /\ resp' = Response("create_student", NoId, 0, NoRating, NotFound)
            /\ UNCHANGED inflight
       ELSE /\ Len(students) + PendingStudents < MaxStudents
            /\ inflight' = inflight (+) SetToBag({
                   Request("create_student", "check_email", NoId, 0, NoRating, cid, email)})
            /\ UNCHANGED resp
    /\ UNCHANGED db

\* POST /students: the lookup of the email
create_student_check_email(req) ==
    /\ req.op = "create_student" /\ req.pc = "check_email"
    /\ IF existing_student(req.email)
       THEN Finish(req, Conflict)
       ELSE Advance(req, "commit") /\ UNCHANGED resp
    /\ UNCHANGED db

\* POST /students: db.session.add, db.session.commit
create_student_commit(req) ==
    /\ req.op = "create_student" /\ req.pc = "commit"
    /\ IF unique_email(req.email)
       THEN /\ students' = Append(students,
                   [college_id |-> req.college_id, email |-> req.email])
            /\ Finish(req, Created)
       ELSE /\ UNCHANGED students
            /\ Finish(req, InternalError)
    /\ UNCHANGED <<colleges, events, registrations, attendances, feedbacks>>

\* POST /events
create_event(limit, wellformed, cid, event_type, capacity) ==
    /\ CanStart(limit)
    /\ IF ~wellformed
       THEN /\ resp' = Response("create_event", NoId, 0, NoRating, BadRequest)
            /\ UNCHANGED events
       ELSE IF ~foreign_key_college(cid)
       THEN /\ resp' = Response("create_event", NoId, 0, NoRating, InternalError)
            /\ UNCHANGED events
       ELSE /\ Len(events) < MaxEvents
            /\ events' = Append(events, [college_id |-> cid,
                   event_type |-> event_type, capacity |-> capacity])
            /\ resp' = Response("create_event", NoId, Len(events) + 1, NoRating, Created)
    /\ UNCHANGED <<colleges, students, registrations, attendances, feedbacks, inflight>>

----------------------------------------------------------------------------
(* POST /events/<event_id>/register *)

\* the student_id check and the Event lookup
register_for_event(limit, sid, eid) ==
    /\ CanStart(limit)
    /\ IF sid = NoId
       THEN /\ resp' = Response("register", sid, eid, NoRating, BadRequest)
            /\ UNCHANGED inflight
       ELSE IF ~event_exists(eid)
       THEN /\ resp' = Response("register", sid, eid, NoRating, NotFound)
            /\ UNCHANGED inflight
       ELSE /\ inflight' = inflight (+) SetToBag({
                   Request("register", "check_student", sid, eid, NoRating, 0, 0)})
            /\ UNCHANGED resp
    /\ UNCHANGED db

\* faulty variant of register_check_student: the capacity check comes next,
\* before the lookup of an existing Registration
register_check_student_then_capacity(req) ==
    /\ req.op = "register" /\ req.pc = "check_student"
    /\ IF ~student_exists(req.sid)
       THEN Finish(req, NotFound)
       ELSE Advance(req, "check_capacity") /\ UNCHANGED resp
    /\ UNCHANGED db

\* the Student lookup
register_check_student(req) ==
    /\ req.op = "register" /\ req.pc = "check_student"
    /\ IF ~student_exists(req.sid)
       THEN Finish(req, NotFound)
       ELSE Advance(req, "check_existing") /\ UNCHANGED resp
    /\ UNCHANGED db

\* the lookup of an existing Registration of the pair
register_check_existing(req) ==
    /\ req.op = "register" /\ req.pc = "check_existing"
    /\ IF existing_registration(req.sid, req.eid)
       THEN Finish(req, Conflict)
       ELSE Advance(req, "check_capacity") /\ UNCHANGED resp
    /\ UNCHANGED db

\* faulty variant of at_full_capacity: > in place of >=
at_full_capacity_off_by_one(eid) == current_registrations(eid) > events[eid].capacity

\* current_registrations >= event.capacity
at_full_capacity(eid) == current_registrations(eid) >= events[eid].capacity

\* faulty variant of register_check_capacity: the request waits for room
register_check_capacity_waiting(req) ==
    /\ req.op = "register" /\ req.pc = "check_capacity"
    /\ ~at_full_capacity(req.eid)
    /\ Advance(req, "commit") /\ UNCHANGED resp
    /\ UNCHANGED db

\* the count of the event's Registrations against its capacity
register_check_capacity(req) ==
    /\ req.op = "register" /\ req.pc = "check_capacity"
    /\ IF at_full_capacity(req.eid)
       THEN Finish(req, BadRequest)
       ELSE Advance(req, "commit") /\ UNCHANGED resp
    /\ UNCHANGED db

\* faulty variant of add_registration: the new row replaces the table's rows
add_registration_replacing(sid, eid) == SetToBag({<<sid, eid>>})

\* Registration(student_id, event_id) added to the table
add_registration(sid, eid) == registrations (+) SetToBag({<<sid, eid>>})

\* faulty variant of register_commit: the event's capacity is decremented
register_commit_decrementing(req) ==
    /\ req.op = "register" /\ req.pc = "commit"
    /\ registrations' = add_registration(req.sid, req.eid)
    /\ events' = [events EXCEPT ![req.eid].capacity = @ - 1]
    /\ Finish(req, Created)
    /\ UNCHANGED <<colleges, students, attendances, feedbacks>>

\* db.session.add(registration), db.session.commit()
register_commit(req) ==
    /\ req.op = "register" /\ req.pc = "commit"
    /\ IF unique_registration(req.sid, req.eid)
       THEN /\ registrations' = add_registration(req.sid, req.eid)
            /\ Finish(req, Created)
       ELSE /\ registrations' = session_rollback(registrations, <<req.sid, req.eid>>)
            /\ Finish(req, InternalError)
    /\ UNCHANGED <<colleges, students, events, attendances, feedbacks>>

----------------------------------------------------------------------------
(* POST /events/<event_id>/attendance *)

\* the student_id check and the lookup of the pair's Registration
mark_attendance(limit, sid, eid) ==
    /\ CanStart(limit)
    /\ IF sid = NoId
       THEN /\ resp' = Response("attendance", sid, eid, NoRating, BadRequest)
            /\ UNCHANGED inflight
       ELSE IF ~existing_registration(sid, eid)
       THEN /\ resp' = Response("attendance", sid, eid, NoRating, Forbidden)
            /\ UNCHANGED inflight
       ELSE /\ inflight' = inflight (+) SetToBag({
                   Request("attendance", "check_existing", sid, eid, NoRating, 0, 0)})
            /\ UNCHANGED resp
    /\ UNCHANGED db

\* the lookup of an existing Attendance of the pair
attendance_check_existing(req) ==
    /\ req.op = "attendance" /\ req.pc = "check_existing"
    /\ IF existing_attendance(req.sid, req.eid)
       THEN Finish(req, Conflict)
       ELSE Advance(req, "commit") /\ UNCHANGED resp
    /\ UNCHANGED db

\* Attendance(student_id, event_id, method) added to the table
add_attendance(sid, eid) == attendances (+) SetToBag({<<sid, eid>>})

\* db.session.add(attendance), db.session.commit()
attendance_commit(req) ==
    /\ req.op = "attendance" /\ req.pc = "commit"
    /\ IF unique_attendance(req.sid, req.eid)
       THEN /\ attendances' = add_attendance(req.sid, req.eid)
            /\ Finish(req, Created)
       ELSE /\ attendances' = session_rollback(attendances, <<req.sid, req.eid>>)
            /\ Finish(req, InternalError)
    /\ UNCHANGED <<colleges, students, events, registrations, feedbacks>>

----------------------------------------------------------------------------
(* POST /events/<event_id>/feedback *)

\* not rating: the rating is absent or 0
rating_missing(rating) == rating = NoRating \/ rating[1] = 0

\* faulty variant of rating_in_range: the upper end is one too high
rating_in_range_off_by_one(rating) ==
    MinRating <= rating[1] /\ rating[1] <= MaxRating + 1

\* 1 <= rating <= 5
rating_in_range(rating) == MinRating <= rating[1] /\ rating[1] <= MaxRating

\* faulty variant of submit_feedback: the Attendance lookup comes before the
\* checks of the rating
submit_feedback_attendance_first(limit, sid, eid, rating) ==
    /\ CanStart(limit)
    /\ IF sid = NoId
       THEN /\ resp' = Response("feedback", sid, eid, rating, BadRequest)
            /\ UNCHANGED inflight
       ELSE IF ~existing_attendance(sid, eid)
       THEN /\ resp' = Response("feedback", sid, eid, rating, Forbidden)
            /\ UNCHANGED inflight
       ELSE IF rating_missing(rating) \/ ~rating_in_range(rating)
       THEN /\ resp' = Response("feedback", sid, eid, rating, BadRequest)
            /\ UNCHANGED inflight
       ELSE /\ inflight' = inflight (+) SetToBag({
                   Request("feedback", "check_existing", sid, eid, rating, 0, 0)})
            /\ UNCHANGED resp
    /\ UNCHANGED db

\* the field checks and the lookup of the pair's Attendance
submit_feedback(limit, sid, eid, rating) ==
    /\ CanStart(limit)
    /\ IF sid = NoId \/ rating_missing(rating)
       THEN /\ resp' = Response("feedback", sid, eid, rating, BadRequest)
            /\ UNCHANGED inflight
       ELSE IF ~rating_in_range(rating)
       THEN /\ resp' = Response("feedback", sid, eid, rating, BadRequest)
            /\ UNCHANGED inflight
       ELSE IF ~existing_attendance(sid, eid)
       THEN /\ resp' = Response("feedback", sid, eid, rating, Forbidden)
            /\ UNCHANGED inflight
       ELSE /\ inflight' = inflight (+) SetToBag({
                   Request("feedback", "check_existing", sid, eid, rating, 0, 0)})
            /\ UNCHANGED resp
    /\ UNCHANGED db

\* the lookup of an existing Feedback of the pair
feedback_check_existing(req) ==
    /\ req.op = "feedback" /\ req.pc = "check_existing"
    /\ IF existing_feedback(req.sid, req.eid)
       THEN Finish(req, Conflict)
       ELSE Advance(req, "commit") /\ UNCHANGED resp
    /\ UNCHANGED db

\* Feedback(student_id, event_id, rating, comment) added to the table
add_feedback(sid, eid, rating) == feedbacks (+) SetToBag({<<sid, eid, rating>>})

\* db.session.add(feedback), db.session.commit()
feedback_commit(req) ==
    /\ req.op = "feedback" /\ req.pc = "commit"
    /\ IF unique_feedback(req.sid, req.eid)
       THEN /\ feedbacks' = add_feedback(req.sid, req.eid, req.rating[1])
            /\ Finish(req, Created)
       ELSE /\ feedbacks' = session_rollback(feedbacks,
                                <<req.sid, req.eid, req.rating[1]>>)
            /\ Finish(req, InternalError)
    /\ UNCHANGED <<colleges, students, events, registrations, attendances>>

----------------------------------------------------------------------------
(* Reporting handlers of Backend/app/api/reports.py.  Numbers that Python  *)
(* rounds to two decimals are kept in hundredths: 5000 is 50.0.            *)

NoFilter == 0                           \* college_id absent from the query string
NoLimit == <<>>                         \* limit absent from the query string
DefaultLimit == 3
NoValue == <<>>                         \* None
OK == 200

Report(op, sid, eid, cid, limit, status, body) ==
    [op |-> op, sid |-> sid, eid |-> eid, rating |-> NoRating, status |-> status,
     college_id |-> cid, limit |-> limit, body |-> body]

RECURSIVE FnSum(_)
FnSum(f) ==
    IF DOMAIN f = {} THEN 0
    ELSE LET x == CHOOSE y \in DOMAIN f : TRUE
         IN  f[x] + FnSum([y \in DOMAIN f \ {x} |-> f[y]])

\* round(num / den, 2), in hundredths; Python rounds a tie to the even digit
round2(num, den) ==
    LET n == num * 100
        q == n \div den
        r == n % den
    IN  IF 2 * r > den \/ (2 * r = den /\ q % 2 = 1) THEN q + 1 ELSE q

\* every order in which the rows of a result set can be listed
Orderings(rows) ==
    {o \in [1..Cardinality(rows) -> rows] :
        \A i, j \in 1..Cardinality(rows) : (i # j) => (o[i] # o[j])}

\* Attendance.query.filter_by(event_id=event_id).count()
attendance_count(eid) ==
    BagSum(attendances, {p \in BagToSet(attendances) : p[2] = eid})

\* Feedback.query.filter_by(event_id=event_id).count()
feedback_count(eid) ==
    BagSum(feedbacks, {f \in BagToSet(feedbacks) : f[2] = eid})

\* the sum of the ratings of an event's Feedback rows
rating_sum(eid) ==
    FnSum([f \in {g \in BagToSet(feedbacks) : g[2] = eid} |->
               f[3] * CopiesIn(f, feedbacks)])

\* func.count(Attendance.id) of one student
student_attendance_count(sid) ==
    BagSum(attendances, {p \in BagToSet(attendances) : p[1] = sid})

\* if college_id: query.filter(<table>.college_id == college_id)
college_filter(cid, row_college) == cid = NoFilter \/ row_college = cid

\* Event joined to Registration, filtered by college, grouped by event
popularity_rows(cid) ==
    {[event_id |-> e, event_type |-> events[e].event_type,
      capacity |-> events[e].capacity,
      registration_count |-> current_registrations(e)] :
        e \in {x \in EventIds : /\ current_registrations(x) > 0
                                /\ college_filter(cid, events[x].college_id)}}

\* faulty variant of order_by_registration_count: ascending
order_by_registration_count_asc(rows) ==
    {o \in Orderings(rows) :
        \A i \in 1..(Len(o) - 1) :
            o[i].registration_count <= o[i + 1].registration_count}

\* order_by(desc('registration_count')): rows of equal count in any order
order_by_registration_count(rows) ==
    {o \in Orderings(rows) :
        \A i \in 1..(Len(o) - 1) :
            o[i].registration_count >= o[i + 1].registration_count}

\* GET /reports/event_popularity
event_popularity(cid) ==
    /\ InFlight = 0
    /\ \E result \in order_by_registration_count(popularity_rows(cid)) :
           resp' = Report("event_popularity", NoId, 0, cid, NoLimit, OK, result)
    /\ UNCHANGED <<db, inflight>>

\* faulty variant of attendance_percentage: the two counts change places
attendance_percentage_swapped(attended, registered) ==
    IF attended > 0 THEN round2(registered * 100, attended) ELSE 0

\* round((attended / registered * 100) if registered > 0 else 0, 2)
attendance_percentage(attended, registered) ==
    IF registered > 0 THEN round2(attended * 100, registered) ELSE 0

\* round(avg(Feedback.rating), 2) if the average is not None else None
average_rating(eid) ==
    IF feedback_count(eid) > 0
    THEN <<round2(rating_sum(eid), feedback_count(eid))>>
    ELSE NoValue

\* faulty variant of event_attendance: the handler writes the count it read
\* back into the event's capacity
event_attendance_writing(eid) ==
    /\ InFlight = 0
    /\ event_exists(eid)
    /\ resp' = Report("event_attendance", NoId, eid, NoFilter, NoLimit, OK, NoValue)
    /\ events' = [events EXCEPT ![eid].capacity = current_registrations(eid)]
    /\ UNCHANGED <<colleges, students, registrations, attendances, feedbacks, inflight>>

\* GET /reports/event/<event_id>/attendance
event_attendance(eid) ==
    /\ InFlight = 0
    /\ IF ~event_exists(eid)
       THEN resp' = Report("event_attendance", NoId, eid, NoFilter, NoLimit,
                           NotFound, NoValue)
       ELSE resp' = Report("event_attendance", NoId, eid, NoFilter, NoLimit, OK,
                [event |-> events[eid],
                 registration_count |-> current_registrations(eid),
                 attendance_count |-> attendance_count(eid),
                 attendance_percentage |->
                     attendance_percentage(attendance_count(eid),
                                           current_registrations(eid)),
                 average_rating |-> average_rating(eid),
                 feedback_count |-> feedback_count(eid)])
    /\ UNCHANGED <<db, inflight>>

\* the rows of a table that belong to one student
student_rows(table, sid) ==
    [r \in {x \in BagToSet(table) : x[1] = sid} |-> CopiesIn(r, table)]

\* faulty variant of attendance_rate: 100 for a student without Registrations
attendance_rate_full_when_empty(attended, registered) ==
    IF registered > 0 THEN round2(attended * 100, registered) ELSE 100

\* round(len(attended) / len(registered) * 100, 2) if registered_events else 0
attendance_rate(attended, registered) ==
    IF registered > 0 THEN round2(attended * 100, registered) ELSE 0

\* GET /reports/student/<student_id>; the three lists are kept as bags of
\* rows, the order of a query without ORDER BY being the engine's
student_participation(sid) ==
    /\ InFlight = 0
    /\ IF ~student_exists(sid)
       THEN resp' = Report("student_participation", sid, 0, NoFilter, NoLimit,
                           NotFound, NoValue)
       ELSE LET registered_events == student_rows(registrations, sid)
                attended_events == student_rows(attendances, sid)
                feedback_data == student_rows(feedbacks, sid)
            IN  resp' = Report("student_participation", sid, 0, NoFilter, NoLimit, OK,
                    [student |-> students[sid],
                     events_registered |-> BagCardinality(registered_events),
                     events_attended |-> BagCardinality(attended_events),
                     attendance_rate |->
                         attendance_rate(BagCardinality(attended_events),
                                         BagCardinality(registered_events)),
                     feedbacks_given |-> BagCardinality(feedback_data),
                     registered_events |-> registered_events,
                     attended_events |-> attended_events,
                     feedbacks |-> feedback_data])
    /\ UNCHANGED <<db, inflight>>

\* Student joined to Attendance, filtered by college, grouped by student
active_student_rows(cid) ==
    {[student_id |-> s, email |-> students[s].email,
      attendance_count |-> student_attendance_count(s)] :
        s \in {x \in StudentIds : /\ student_attendance_count(x) > 0
                                  /\ college_filter(cid, students[x].college_id)}}

\* order_by(desc('attendance_count')): rows of equal count in any order
order_by_attendance_count(rows) ==
    {o \in Orderings(rows) :
        \A i \in 1..(Len(o) - 1) :
            o[i].attendance_count >= o[i + 1].attendance_count}

\* int(request.args.get('limit', 3))
limit_arg(limit) == IF limit = NoLimit THEN DefaultLimit ELSE limit[1]

\* faulty variant of take_limit: one row more than the limit
take_limit_one_more(rows, n) ==
    SubSeq(rows, 1, IF Len(rows) < n + 1 THEN Len(rows) ELSE n + 1)

\* .limit(limit)
take_limit(rows, n) == SubSeq(rows, 1, IF Len(rows) < n THEN Len(rows) ELSE n)

\* GET /reports/top_active_students
top_active_students(cid, limit) ==
    /\ InFlight = 0
    /\ \E result \in order_by_attendance_count(active_student_rows(cid)) :
           resp' = Report("top_active_students", NoId, 0, cid, limit, OK,
                          take_limit(result, limit_arg(limit)))
    /\ UNCHANGED <<db, inflight>>

----------------------------------------------------------------------------
(* The dashboard view of Backend/app/api/reports_web.py.  A quotient the   *)
(* database computes is kept as the pair <<dividend, divisor>>.            *)

WebPopularityLimit == 10
WebTopLimit == 3

\* an outer join keeps one row of the left side where the right side has none
outer(n) == IF n = 0 THEN 1 ELSE n

\* join(College, <table>.college_id == College.id)
joined_college(cid) == cid \in colleges

\* Event outer-joined to Registration and joined to College, grouped by event
web_popularity_rows ==
    {[event_id |-> e, event_type |-> events[e].event_type,
      college_id |-> events[e].college_id,
      registration_count |-> current_registrations(e),
      capacity |-> events[e].capacity,
      popularity_percentage |-> <<current_registrations(e) * 100, events[e].capacity>>] :
        e \in {x \in EventIds : joined_college(events[x].college_id)}}

student_registration_count(sid) ==
    BagSum(registrations, {p \in BagToSet(registrations) : p[1] = sid})

student_feedback_count(sid) ==
    BagSum(feedbacks, {f \in BagToSet(feedbacks) : f[1] = sid})

student_rating_sum(sid) ==
    FnSum([f \in {g \in BagToSet(feedbacks) : g[1] = sid} |->
               f[3] * CopiesIn(f, feedbacks)])

\* func.avg(Feedback.rating) over the rows of the joins: every Feedback row
\* is repeated once per pair of a Registration row and an Attendance row
join_average(rating_total, rows) ==
    IF rows = 0 THEN NoValue ELSE <<rating_total, rows>>

\* Student outer-joined to Registration, Attendance and Feedback, joined to
\* College, grouped by student, having a Registration
web_top_student_rows ==
    {[student_id |-> s, email |-> students[s].email,
      college_id |-> students[s].college_id,
      total_registrations |-> student_registration_count(s),
      total_attendances |-> student_attendance_count(s),
      total_feedbacks |-> student_feedback_count(s),
      average_rating |->
          join_average(
              outer(student_registration_count(s)) * outer(student_attendance_count(s))
                  * student_rating_sum(s),
              outer(student_registration_count(s)) * outer(student_attendance_count(s))
                  * student_feedback_count(s))] :
        s \in {x \in StudentIds : /\ joined_college(students[x].college_id)
                                  /\ student_registration_count(x) > 0}}

events_of_type(t) == {e \in EventIds : events[e].event_type = t}

\* Event outer-joined to Registration, Attendance and Feedback, grouped by
\* event_type
event_type_stats ==
    {[event_type |-> t,
      total_events |-> Cardinality(events_of_type(t)),
      total_registrations |->
          FnSum([e \in events_of_type(t) |-> current_registrations(e)]),
      total_attendances |->
          FnSum([e \in events_of_type(t) |-> attendance_count(e)]),
      average_rating |->
          join_average(
              FnSum([e \in events_of_type(t) |->
                  outer(current_registrations(e)) * outer(attendance_count(e))
                      * rating_sum(e)]),
              FnSum([e \in events_of_type(t) |->
                  outer(current_registrations(e)) * outer(attendance_count(e))
                      * feedback_count(e)]))] :
        t \in {events[e].event_type : e \in EventIds}}

\* order_by(desc('total_registrations')): rows of equal count in any order
order_by_total_registrations(rows) ==
    {o \in Orderings(rows) :
        \A i \in 1..(Len(o) - 1) :
            o[i].total_registrations >= o[i + 1].total_registrations}

\* GET /reports: the three queries whose rows the HTML template renders
web_reports ==
    /\ InFlight = 0
    /\ \E popularity \in order_by_registration_count(web_popularity_rows),
          top_students \in order_by_total_registrations(web_top_student_rows),
          type_stats \in order_by_total_registrations(event_type_stats) :
           resp' = Report("web_reports", NoId, 0, NoFilter, NoLimit, OK,
                [event_popularity |-> take_limit(popularity, WebPopularityLimit),
                 top_students |-> take_limit(top_students, WebTopLimit),
                 event_type_stats |-> type_stats])
    /\ UNCHANGED <<db, inflight>>

----------------------------------------------------------------------------
(* Specifications *)

\* a request arrives, while fewer than limit requests are in flight
Arrive(limit) ==
    \/ \E has_name \in BOOLEAN : create_college(limit, has_name)
    \/ \E has_fields \in BOOLEAN, cid \in CollegeIdInputs, email \in EmailInputs :
           create_student(limit, has_fields, cid, email)
    \/ \E wellformed \in BOOLEAN, cid \in CollegeIdInputs, capacity \in CapacityInputs :
           create_event(limit, wellformed, cid, 1, capacity)
    \/ \E sid \in StudentIdInputs, eid \in EventIdInputs :
           register_for_event(limit, sid, eid)
    \/ \E sid \in StudentIdInputs, eid \in EventIdInputs :
           mark_attendance(limit, sid, eid)
    \/ \E sid \in StudentIdInputs, eid \in EventIdInputs, rating \in RatingInputs :
           submit_feedback(limit, sid, eid, rating)

\* a create_student request in flight runs its next query
StudentStep ==
    \/ \E req \in BagToSet(inflight) : create_student_check_email(req)
    \/ \E req \in BagToSet(inflight) : create_student_commit(req)

\* a workflow request in flight runs its next query
WorkflowStep ==
    \/ \E req \in BagToSet(inflight) : register_check_student(req)
    \/ \E req \in BagToSet(inflight) : register_check_existing(req)
    \/ \E req \in BagToSet(inflight) : register_check_capacity(req)
    \/ \E req \in BagToSet(inflight) : register_commit(req)
    \/ \E req \in BagToSet(inflight) : attendance_check_existing(req)
    \/ \E req \in BagToSet(inflight) : attendance_commit(req)
    \/ \E req \in BagToSet(inflight) : feedback_check_existing(req)
    \/ \E req \in BagToSet(inflight) : feedback_commit(req)

\* a request in flight runs its next query
Step == StudentStep \/ WorkflowStep

\* requests served by concurrent threads
Next == Arrive(MaxInFlight) \/ Step

Spec == Init /\ [][Next]_vars

\* requests served one at a time
SeqNext == Arrive(1) \/ Step

SeqSpec == Init /\ [][SeqNext]_vars

\* POST /events takes any integer as capacity: the inputs of SeqSpec and
\* capacities 0 and -1
EntityCapacityInputs == (0 - 1)..MaxCapacity

EntityArrive ==
    \/ \E has_name \in BOOLEAN : create_college(1, has_name)
    \/ \E has_fields \in BOOLEAN, cid \in CollegeIdInputs, email \in EmailInputs :
           create_student(1, has_fields, cid, email)
    \/ \E wellformed \in BOOLEAN, cid \in CollegeIdInputs,
          capacity \in EntityCapacityInputs :
           create_event(1, wellformed, cid, 1, capacity)
    \/ \E sid \in StudentIdInputs, eid \in EventIdInputs :
           register_for_event(1, sid, eid)
    \/ \E sid \in StudentIdInputs, eid \in EventIdInputs :
           mark_attendance(1, sid, eid)
    \/ \E sid \in StudentIdInputs, eid \in EventIdInputs, rating \in RatingInputs :
           submit_feedback(1, sid, eid, rating)

EntityNext == EntityArrive \/ Step

EntitySpec == Init /\ [][EntityNext]_vars

----------------------------------------------------------------------------
(* Concurrent workflow requests under fair scheduling.  The store holds    *)
(* MaxStudents students and MaxEvents events with room for one student;    *)
(* a client sends a request again only after its earlier one is answered,  *)
(* so a request in flight is known by its handler, student, event and      *)
(* rating.  Every thread that serves a request is scheduled again and      *)
(* again.                                                                  *)

LiveInit ==
    /\ colleges = CollegeIdInputs
    /\ students = [i \in 1..MaxStudents |-> [college_id |-> 1, email |-> i]]
    /\ events = [j \in 1..MaxEvents |-> [college_id |-> 1, event_type |-> 1,
                                         capacity |-> 1]]
    /\ registrations = EmptyBag
    /\ attendances = EmptyBag
    /\ feedbacks = EmptyBag
    /\ inflight = EmptyBag
    /\ resp = NoResponse

LiveRatingInputs == {<<MinRating>>, <<MaxRating>>}

LiveKeys ==
    ({"register", "attendance"} \X (1..MaxStudents) \X EventIdInputs \X {NoRating})
        \cup ({"feedback"} \X (1..MaxStudents) \X EventIdInputs \X LiveRatingInputs)

\* the requests in flight of one handler for one student, event and rating
OfKey(k) ==
    {q \in BagToSet(inflight) :
        q.op = k[1] /\ q.sid = k[2] /\ q.eid = k[3] /\ q.rating = k[4]}

PendingKey(k) == BagSum(inflight, OfKey(k))

LiveArrive ==
    \/ \E sid \in 1..MaxStudents, eid \in EventIdInputs :
           /\ PendingKey(<<"register", sid, eid, NoRating>>) = 0
           /\ register_for_event(MaxInFlight, sid, eid)
    \/ \E sid \in 1..MaxStudents, eid \in EventIdInputs :
           /\ PendingKey(<<"attendance", sid, eid, NoRating>>) = 0
           /\ mark_attendance(MaxInFlight, sid, eid)
    \/ \E sid \in 1..MaxStudents, eid \in EventIdInputs, rating \in LiveRatingInputs :
           /\ PendingKey(<<"feedback", sid, eid, rating>>) = 0
           /\ submit_feedback(MaxInFlight, sid, eid, rating)

\* the thread serving the request of key k runs the request's next query
StepOf(k) ==
    \E req \in OfKey(k) :
        \/ register_check_student(req)
        \/ register_check_existing(req)
        \/ register_check_capacity(req)
        \/ register_commit(req)
        \/ attendance_check_existing(req)
        \/ attendance_commit(req)
        \/ feedback_check_existing(req)
        \/ feedback_commit(req)

LiveNext == LiveArrive \/ WorkflowStep

LiveSpec ==
    /\ LiveInit
    /\ [][LiveNext]_vars
    /\ \A k \in LiveKeys : WF_vars(StepOf(k))

----------------------------------------------------------------------------
(* GET /reports/event/<event_id>/attendance query by query, served by a    *)
(* thread of its own next to the workflow requests.  The handler sends     *)
(* five queries and no query is tied to the one before it; what a query    *)
(* returned is kept in the request.                                        *)

ReportRequest(pc, eid, registered, attended, avg_rating) ==
    [op |-> "event_attendance", pc |-> pc, sid |-> NoId, eid |-> eid,
     rating |-> NoRating, college_id |-> NoFilter, email |-> 0,
     registration_count |-> registered,
     attendance_count |-> attended, average_rating |-> avg_rating]

\* Event.query.get(event_id)
event_attendance_lookup(limit, eid) ==
    /\ CanStart(limit)
    /\ IF ~event_exists(eid)
       THEN /\ resp' = Report("event_attendance", NoId, eid, NoFilter, NoLimit,
                              NotFound, NoValue)
            /\ UNCHANGED inflight
       ELSE /\ inflight' = inflight (+) SetToBag({
                   ReportRequest("count_registrations", eid, 0, 0, NoValue)})
            /\ UNCHANGED resp
    /\ UNCHANGED db

\* Registration.query.filter_by(event_id=event_id).count()
event_attendance_count_registrations(req) ==
    /\ req.op = "event_attendance" /\ req.pc = "count_registrations"
    /\ inflight' = (inflight (-) SetToBag({req})) (+) SetToBag({
           ReportRequest("count_attendances", req.eid,
                         current_registrations(req.eid), 0, NoValue)})
    /\ UNCHANGED <<db, resp>>

\* Attendance.query.filter_by(event_id=event_id).count()
event_attendance_count_attendances(req) ==
    /\ req.op = "event_attendance" /\ req.pc = "count_attendances"
    /\ inflight' = (inflight (-) SetToBag({req})) (+) SetToBag({
           ReportRequest("average_rating", req.eid, req.registration_count,
                         attendance_count(req.eid), NoValue)})
    /\ UNCHANGED <<db, resp>>

\* db.session.query(func.avg(Feedback.rating)).filter_by(event_id).scalar()
event_attendance_average(req) ==
    /\ req.op = "event_attendance" /\ req.pc = "average_rating"
    /\ inflight' = (inflight (-) SetToBag({req})) (+) SetToBag({
           ReportRequest("count_feedbacks", req.eid, req.registration_count,
                         req.attendance_count, average_rating(req.eid))})
    /\ UNCHANGED <<db, resp>>

\* Feedback.query.filter_by(event_id=event_id).count() and the response
event_attendance_respond(req) ==
    /\ req.op = "event_attendance" /\ req.pc = "count_feedbacks"
    /\ inflight' = inflight (-) SetToBag({req})
    /\ resp' = Report("event_attendance", NoId, req.eid, NoFilter, NoLimit, OK,
                [event |-> events[req.eid],
                 registration_count |-> req.registration_count,
                 attendance_count |-> req.attendance_count,
                 attendance_percentage |->
                     attendance_percentage(req.attendance_count,
                                           req.registration_count),
                 average_rating |-> req.average_rating,
                 feedback_count |-> feedback_count(req.eid)])
    /\ UNCHANGED db

RaceInit ==
    /\ colleges = CollegeIdInputs
    /\ students = [i \in 1..MaxStudents |-> [college_id |-> 1, email |-> i]]
    /\ events = [j \in 1..MaxEvents |-> [college_id |-> 1, event_type |-> 1,
                                         capacity |-> MaxCapacity]]
    /\ registrations = EmptyBag
    /\ attendances = EmptyBag
    /\ feedbacks = EmptyBag
    /\ inflight = EmptyBag
    /\ resp = NoResponse

\* a workflow request or a report request arrives
RaceArrive ==
    \/ \E sid \in 1..MaxStudents, eid \in EventIdInputs :
           register_for_event(MaxInFlight, sid, eid)
    \/ \E sid \in 1..MaxStudents, eid \in EventIdInputs :
           mark_attendance(MaxInFlight, sid, eid)
    \/ \E sid \in 1..MaxStudents, eid \in EventIdInputs :
           submit_feedback(MaxInFlight, sid, eid, <<MaxRating>>)
    \/ \E eid \in 1..(MaxEvents + 1) : event_attendance_lookup(MaxInFlight, eid)

\* the report request in flight sends its next query
ReportStep ==
    \/ \E req \in BagToSet(inflight) : event_attendance_count_registrations(req)
    \/ \E req \in BagToSet(inflight) : event_attendance_count_attendances(req)
    \/ \E req \in BagToSet(inflight) : event_attendance_average(req)
    \/ \E req \in BagToSet(inflight) : event_attendance_respond(req)

RaceNext == RaceArrive \/ WorkflowStep \/ ReportStep

RaceSpec == RaceInit /\ [][RaceNext]_vars

----------------------------------------------------------------------------
(* The reports over a seeded store.  The colleges, students and events are *)
(* in the store from the start, as after POST /colleges, /students and     *)
(* /events; the workflow requests and the reports are served one at a      *)
(* time.                                                                   *)

ReportColleges == 2
ReportStudents == 3
ReportEvents == 2
ReportEventTypes == 2

SeedCollege(i) == ((i - 1) % ReportColleges) + 1

SeedStudents == [i \in 1..ReportStudents |-> [college_id |-> SeedCollege(i), email |-> i]]

\* the first event has room for one student, the others for MaxCapacity;
\* the first event is of type 1
SeedEvents ==
    {ev \in [1..ReportEvents ->
                [college_id : 1..ReportColleges, event_type : 1..ReportEventTypes,
                 capacity : CapacityInputs]] :
        /\ ev[1].event_type = 1
        /\ \A j \in 1..ReportEvents :
               /\ ev[j].college_id = SeedCollege(j)
               /\ ev[j].capacity = IF j = 1 THEN 1 ELSE MaxCapacity}

ReportInit ==
    /\ colleges = 1..ReportColleges
    /\ students = SeedStudents
    /\ events \in SeedEvents
    /\ registrations = EmptyBag
    /\ attendances = EmptyBag
    /\ feedbacks = EmptyBag
    /\ inflight = EmptyBag
    /\ resp = NoResponse

ReportRatingInputs == {<<MinRating>>, <<MaxRating>>}
ReportLimitInputs == {NoLimit, <<1>>, <<2>>}

\* the response sent last has reached its client
deliver_response ==
    /\ InFlight = 0
    /\ resp # NoResponse
    /\ resp' = NoResponse
    /\ UNCHANGED <<db, inflight>>

\* a workflow request of a seeded student for a seeded event arrives, once
\* the response before it is delivered
ReportArrive ==
    \/ \E sid \in 1..ReportStudents, eid \in 1..ReportEvents :
           resp = NoResponse /\ register_for_event(1, sid, eid)
    \/ \E sid \in 1..ReportStudents, eid \in 1..ReportEvents :
           resp = NoResponse /\ mark_attendance(1, sid, eid)
    \/ \E sid \in 1..ReportStudents, eid \in 1..ReportEvents,
          rating \in ReportRatingInputs :
           resp = NoResponse /\ submit_feedback(1, sid, eid, rating)

\* a report is asked for, once the response before it is delivered; the ids
\* range over the seeded rows and one more
ReportRead ==
    \/ \E cid \in NoFilter..(ReportColleges + 1) :
           resp = NoResponse /\ event_popularity(cid)
    \/ \E eid \in 1..(ReportEvents + 1) :
           resp = NoResponse /\ event_attendance(eid)
    \/ \E sid \in 1..(ReportStudents + 1) :
           resp = NoResponse /\ student_participation(sid)
    \/ \E cid \in NoFilter..ReportColleges, limit \in ReportLimitInputs :
           resp = NoResponse /\ top_active_students(cid, limit)
    \/ resp = NoResponse /\ web_reports

ReportNext == ReportArrive \/ WorkflowStep \/ ReportRead \/ deliver_response

ReportSpec == ReportInit /\ [][ReportNext]_vars

----------------------------------------------------------------------------
(* Vocabulary of the properties: rows stored per (student, event) pair *)

Pairs == (1..MaxStudents) \X EventIdInputs

Reg(s, e) == CopiesIn(<<s, e>>, registrations)
Att(s, e) == CopiesIn(<<s, e>>, attendances)
Fb(s, e) == feedback_rows(s, e)

WorkflowOps == {"register", "attendance", "feedback"}

\* requests of one handler in flight for one pair
Pending(op, s, e) ==
    BagSum(inflight, {q \in BagToSet(inflight) : q.op = op /\ q.sid = s /\ q.eid = e})

\* 0 Unregistered, 1 Registered, 2 Attended, 3 Gave-Feedback
Stage(s, e) ==
    IF Fb(s, e) > 0 THEN 3 ELSE IF Att(s, e) > 0 THEN 2 ELSE IF Reg(s, e) > 0 THEN 1 ELSE 0

----------------------------------------------------------------------------
(* C1: under any interleaving of register requests whose count read and    *)
(* insert are separate steps, the number of Registrations stored for an    *)
(* event never exceeds the event's capacity.                               *)
C1_CapacityNeverExceeded ==
    \A e \in EventIds : current_registrations(e) <= events[e].capacity

(* C2: with requests served one at a time, a register call for an existing *)
(* student not yet registered for an existing event of capacity c >= 1     *)
(* succeeds and adds one Registration while fewer than c are stored, and   *)
(* fails with 400 and adds nothing once c are stored; so the first c calls *)
(* for distinct students succeed, the (c+1)-th fails and exactly c         *)
(* Registrations persist.                                                  *)
C2_SequentialCapacity ==
    [][\A p \in Pairs :
          ( /\ InFlight' = 0
            /\ resp'.op = "register" /\ resp'.sid = p[1] /\ resp'.eid = p[2]
            /\ student_exists(p[1]) /\ event_exists(p[2])
            /\ events[p[2]].capacity >= 1
            /\ Reg(p[1], p[2]) = 0 )
          => /\ IF current_registrations(p[2]) < events[p[2]].capacity
                THEN /\ resp'.status = Created
                     /\ current_registrations(p[2])' = current_registrations(p[2]) + 1
                ELSE /\ resp'.status = BadRequest
                     /\ registrations' = registrations
             /\ current_registrations(p[2])' <= events[p[2]].capacity
      ]_vars

\* the (c+1)-th student was turned away from an event holding c Registrations
C2_Witness ==
    /\ resp.op = "register" /\ resp.status = BadRequest
    /\ student_exists(resp.sid) /\ event_exists(resp.eid)
    /\ Reg(resp.sid, resp.eid) = 0
    /\ events[resp.eid].capacity >= 1
    /\ current_registrations(resp.eid) = events[resp.eid].capacity
    /\ InFlight = 0

\* a step that answers register(s, e) right after an answer to register(s, e)
SecondRegister(p) ==
    /\ InFlight' = 0
    /\ resp.op = "register" /\ resp.sid = p[1] /\ resp.eid = p[2]
    /\ resp'.op = "register" /\ resp'.sid = p[1] /\ resp'.eid = p[2]
    /\ student_exists(p[1]) /\ event_exists(p[2])

(* C3 as stated: for every existing student s and event e, register(s,e)   *)
(* called twice in sequence leaves exactly one Registration for (s,e) and  *)
(* the second call fails with 409.                                         *)
C3_TwiceAsStated ==
    [][\A p \in Pairs :
          SecondRegister(p) => resp'.status = Conflict /\ Reg(p[1], p[2])' = 1
      ]_vars

(* C3 amended: for every existing student s and event e, when the first of *)
(* two register(s,e) calls in sequence is not rejected for capacity, the   *)
(* two calls leave exactly one Registration for (s,e) and the second call  *)
(* fails with 409.                                                         *)
C3_TwiceWhenRoom ==
    [][\A p \in Pairs :
          (SecondRegister(p) /\ resp.status # BadRequest)
          => resp'.status = Conflict /\ Reg(p[1], p[2])' = 1
      ]_vars

\* the second register call of a registered student was answered 409
C3_Witness ==
    /\ resp.op = "register" /\ resp.status = Conflict
    /\ Reg(resp.sid, resp.eid) = 1
    /\ InFlight = 0

(* C4: under any interleaving of register, markAttendance and              *)
(* submitFeedback requests, each (student, event) pair has at most one     *)
(* Registration, at most one Attendance and at most one Feedback.          *)
C4_AtMostOnePerPair ==
    /\ \A p \in BagToSet(registrations) : CopiesIn(p, registrations) <= 1
    /\ \A p \in BagToSet(attendances) : CopiesIn(p, attendances) <= 1
    /\ \A f \in BagToSet(feedbacks) : Fb(f[1], f[2]) <= 1

\* two requests raced past the existence check and the store rejected the second insert
C4_Witness ==
    /\ resp.op \in WorkflowOps /\ resp.status = InternalError
    /\ Reg(resp.sid, resp.eid) = 1

(* C5: when two concurrent requests of one workflow operation for one pair *)
(* both pass the existence check and the store's uniqueness constraint     *)
(* rejects the later insert, the losing request is answered 409, not 500.  *)
C5_LoserGetsConflict ==
    resp.op \in WorkflowOps => resp.status # InternalError

(* C6: markAttendance(s,e) called while no Registration exists for (s,e)   *)
(* is answered 403 and creates no Attendance: while the pair has no        *)
(* Registration, the last answer to markAttendance(s,e) is 403, no         *)
(* markAttendance(s,e) request is past its Registration check, and no      *)
(* Attendance of the pair is stored.                                       *)
C6_AttendanceNeedsRegistration ==
    \A sid \in StudentIdInputs \ {NoId}, eid \in EventIdInputs :
        Reg(sid, eid) = 0 =>
            /\ ((resp.op = "attendance" /\ resp.sid = sid /\ resp.eid = eid)
                  => resp.status = Forbidden)
            /\ Pending("attendance", sid, eid) = 0
            /\ Att(sid, eid) = 0

\* markAttendance of an existing student for an existing event, before register
C6_Witness ==
    /\ resp.op = "attendance" /\ resp.status = Forbidden
    /\ student_exists(resp.sid) /\ event_exists(resp.eid)
    /\ Reg(resp.sid, resp.eid) = 0 /\ Att(resp.sid, resp.eid) = 0

(* C7 as stated: for all students s, events e and ratings r (any rating    *)
(* the request carries), submitFeedback(s,e,r) called while no Attendance  *)
(* exists for (s,e) is answered 403.                                       *)
C7_ForbiddenForEveryRating ==
    \A sid \in StudentIdInputs \ {NoId}, eid \in EventIdInputs :
        (Att(sid, eid) = 0 /\ resp.op = "feedback" /\ resp.sid = sid
             /\ resp.eid = eid /\ ~rating_missing(resp.rating))
        => resp.status = Forbidden

(* C7 amended: for all students s, events e and ratings r in [1,5],        *)
(* submitFeedback(s,e,r) called while no Attendance exists for (s,e) is    *)
(* answered 403; for every rating, it creates no Feedback.                 *)
C7_FeedbackNeedsAttendance ==
    \A sid \in StudentIdInputs \ {NoId}, eid \in EventIdInputs :
        Att(sid, eid) = 0 =>
            /\ ((resp.op = "feedback" /\ resp.sid = sid /\ resp.eid = eid
                   /\ resp.rating \in {<<r>> : r \in MinRating..MaxRating})
                  => resp.status = Forbidden)
            /\ Pending("feedback", sid, eid) = 0
            /\ Fb(sid, eid) = 0

\* submitFeedback of a registered student who has not attended
C7_Witness ==
    /\ resp.op = "feedback" /\ resp.status = Forbidden
    /\ Reg(resp.sid, resp.eid) = 1
    /\ Att(resp.sid, resp.eid) = 0 /\ Fb(resp.sid, resp.eid) = 0

(* C8: every stored Feedback of a pair has a matching Attendance and every *)
(* stored Attendance of a pair has a matching Registration.                *)
C8_FeedbackAttendanceRegistration ==
    /\ \A f \in BagToSet(feedbacks) : Att(f[1], f[2]) > 0
    /\ \A p \in BagToSet(attendances) : Reg(p[1], p[2]) > 0

\* a pair holding all three records
C8_Witness ==
    \E f \in BagToSet(feedbacks) : Att(f[1], f[2]) = 1 /\ Reg(f[1], f[2]) = 1

(* C9: the workflow stage of each pair only moves forward: a Registration, *)
(* Attendance or Feedback that exists for a pair exists in every later     *)
(* state, and no step moves a pair to an earlier stage.                    *)
C9_ForwardOnly ==
    [][\A p \in Pairs :
          /\ (Reg(p[1], p[2]) > 0 => Reg(p[1], p[2])' > 0)
          /\ (Att(p[1], p[2]) > 0 => Att(p[1], p[2])' > 0)
          /\ (Fb(p[1], p[2]) > 0 => Fb(p[1], p[2])' > 0)
          /\ Stage(p[1], p[2])' >= Stage(p[1], p[2])
      ]_vars

\* one pair went through all stages while another holds a Registration
C9_Witness ==
    \E p \in Pairs, q \in Pairs : p # q /\ Stage(p[1], p[2]) = 3 /\ Stage(q[1], q[2]) >= 1

(* C10: markAttendance and submitFeedback called with a student id or an   *)
(* event id that is not in the store are answered 404, as register is.     *)
C10_NotFoundForUnknownIds ==
    ( /\ resp.op \in {"attendance", "feedback"}
      /\ resp.sid # NoId
      /\ (resp.op = "feedback" => resp.rating \in {<<r>> : r \in MinRating..MaxRating})
      /\ (~student_exists(resp.sid) \/ ~event_exists(resp.eid)) )
    => resp.status = NotFound

(* C11: a register call that names a student or an event that does not     *)
(* exist is answered 404 and goes no further than the lookup that misses,  *)
(* and every Registration stored references an existing Student and an     *)
(* existing Event.                                                         *)
C11_RegisterNeedsStudentAndEvent ==
    /\ \A r \in BagToSet(registrations) : r[1] \in StudentIds /\ r[2] \in EventIds
    /\ \A q \in BagToSet(inflight) :
           (q.op = "register") =>
               /\ q.eid \in EventIds
               /\ (q.pc # "check_student") => (q.sid \in StudentIds)
    /\ ( /\ resp.op = "register" /\ resp.sid # NoId
         /\ (resp.sid \notin StudentIds \/ resp.eid \notin EventIds) )
       => resp.status = NotFound

\* a register call for an existing event and a missing student was answered
\* 404 while another student's Registration is stored
C11_Witness ==
    /\ resp.op = "register" /\ resp.status = NotFound
    /\ resp.sid # NoId /\ resp.sid \notin StudentIds /\ resp.eid \in EventIds
    /\ registrations # EmptyBag

(* C12: with requests served one at a time, a feedback call for a pair     *)
(* that has an Attendance and no Feedback is answered 400 and stores       *)
(* nothing when the rating is 0 or 6, and is answered 201 and stores one   *)
(* Feedback of that rating when the rating is 1 or 5; every rating stored  *)
(* lies in 1..5.                                                           *)
C12_RatingBoundaries ==
    [][ /\ \A p \in Pairs :
              ( /\ InFlight' = 0
                /\ resp'.op = "feedback" /\ resp'.sid = p[1] /\ resp'.eid = p[2]
                /\ Att(p[1], p[2]) > 0 /\ Fb(p[1], p[2]) = 0 )
              => /\ (resp'.rating \in {<<0>>, <<6>>})
                        => (resp'.status = BadRequest /\ feedbacks' = feedbacks)
                 /\ (resp'.rating \in {<<1>>, <<5>>})
                        => /\ resp'.status = Created
                           /\ CopiesIn(<<p[1], p[2], resp'.rating[1]>>, feedbacks') = 1
                           /\ Fb(p[1], p[2])' = 1
        /\ \A f \in BagToSet(feedbacks') : f[3] \in 1..5
      ]_vars

\* rating 6 was refused for a pair that attended and has no Feedback
C12_Witness ==
    /\ InFlight = 0
    /\ resp.op = "feedback" /\ resp.rating = <<6>> /\ resp.status = BadRequest
    /\ resp.sid # NoId /\ Att(resp.sid, resp.eid) > 0 /\ Fb(resp.sid, resp.eid) = 0

(* C13: every step that changes a stored table is the last step of a       *)
(* request answered 201; a request answered with an error, and a request   *)
(* still in flight, has changed no table.                                  *)
C13_AllOrNothing ==
    [][ (db' # db) => (resp'.status = Created /\ InFlight' <= InFlight) ]_vars

\* an attendance commit failed on the unique constraint and was rolled back:
\* the pair's one Attendance is the row of the request that won
C13_Witness ==
    /\ resp.op = "attendance" /\ resp.status = InternalError
    /\ Att(resp.sid, resp.eid) = 1

----------------------------------------------------------------------------
(* Vocabulary of the report properties *)

\* the students with a Registration, with an Attendance, and the
\* <<student, rating>> pairs of the Feedback stored for one event
Stored(e) ==
    << {r[1] : r \in {x \in BagToSet(registrations) : x[2] = e}},
       {r[1] : r \in {x \in BagToSet(attendances) : x[2] = e}},
       {<<f[1], f[3]>> : f \in {x \in BagToSet(feedbacks) : x[2] = e}} >>

\* this step answers the workflow call op of student s for event e
Answers(op, s, e, rating) ==
    /\ InFlight' = 0 /\ resp' # resp
    /\ resp'.op = op /\ resp'.sid = s /\ resp'.eid = e /\ resp'.rating = rating

(* C14: for an event e of capacity 2 without records and distinct students *)
(* a, b, c, each call of the sequence register a, register b, register c,  *)
(* attendance a, feedback (a, 5), feedback (a, 5), made in the store the   *)
(* calls before it leave, gets 201, 201, 400, 201, 201, 409 and leaves the *)
(* store the next call starts from; eventAttendance read in the last store *)
(* reports registration_count 2, attendance_count 1, attendance_percentage *)
(* 50.0, average_rating 5.0 and feedback_count 1.                          *)
C14_ScenarioReport ==
    [][\A e \in 1..ReportEvents, a \in 1..ReportStudents,
          b \in 1..ReportStudents, c \in 1..ReportStudents :
           (events[e].capacity = 2 /\ a # b /\ a # c /\ b # c) =>
           /\ (Answers("register", a, e, NoRating) /\ Stored(e) = <<{}, {}, {}>>)
                  => (resp'.status = 201 /\ Stored(e)' = <<{a}, {}, {}>>)
           /\ (Answers("register", b, e, NoRating) /\ Stored(e) = <<{a}, {}, {}>>)
                  => (resp'.status = 201 /\ Stored(e)' = <<{a, b}, {}, {}>>)
           /\ (Answers("register", c, e, NoRating) /\ Stored(e) = <<{a, b}, {}, {}>>)
                  => (resp'.status = 400 /\ Stored(e)' = <<{a, b}, {}, {}>>)
           /\ (Answers("attendance", a, e, NoRating) /\ Stored(e) = <<{a, b}, {}, {}>>)
                  => (resp'.status = 201 /\ Stored(e)' = <<{a, b}, {a}, {}>>)
           /\ (Answers("feedback", a, e, <<5>>) /\ Stored(e) = <<{a, b}, {a}, {}>>)
                  => (resp'.status = 201 /\ Stored(e)' = <<{a, b}, {a}, {<<a, 5>>}>>)
           /\ ( /\ Answers("feedback", a, e, <<5>>)
                /\ Stored(e) = <<{a, b}, {a}, {<<a, 5>>}>> )
                  => (resp'.status = 409 /\ Stored(e)' = <<{a, b}, {a}, {<<a, 5>>}>>)
           /\ ( /\ resp'.op = "event_attendance" /\ resp'.eid = e /\ resp' # resp
                /\ Stored(e) = <<{a, b}, {a}, {<<a, 5>>}>> )
                  => /\ resp'.status = 200
                     /\ resp'.body.registration_count = 2
                     /\ resp'.body.attendance_count = 1
                     /\ resp'.body.attendance_percentage = 5000
                     /\ resp'.body.average_rating = <<500>>
                     /\ resp'.body.feedback_count = 1
      ]_vars

\* the report was read after the scenario: two students registered for an
\* event of capacity 2, one of them attended and rated it 5
C14_Witness ==
    /\ resp.op = "event_attendance" /\ resp.status = 200
    /\ events[resp.eid].capacity = 2
    /\ \E a \in 1..ReportStudents, b \in 1..ReportStudents :
           a # b /\ Stored(resp.eid) = <<{a, b}, {a}, {<<a, 5>>}>>

ReportOps == {"event_popularity", "event_attendance", "student_participation",
              "top_active_students", "web_reports"}

\* the events a popularity report with this filter is about
EventsOfFilter(cid) ==
    {e \in 1..Len(events) : cid = NoFilter \/ events[e].college_id = cid}

\* the students an activity report with this filter is about
StudentsOfFilter(cid) ==
    {s \in 1..Len(students) : cid = NoFilter \/ students[s].college_id = cid}

AttendancesOf(s) == BagSum(attendances, {x \in BagToSet(attendances) : x[1] = s})

(* C15: the list eventPopularity returns has exactly one entry for each    *)
(* Event of the store (of the college asked for, when college_id is        *)
(* given), also for an event without Registrations, and the entry's        *)
(* registration_count is the number of Registrations stored for the event. *)
C15_OneEntryPerEvent ==
    (resp.op = "event_popularity") =>
        /\ \A e \in EventsOfFilter(resp.college_id) :
               /\ Cardinality({i \in 1..Len(resp.body) : resp.body[i].event_id = e}) = 1
               /\ \A i \in 1..Len(resp.body) :
                      (resp.body[i].event_id = e) =>
                          (resp.body[i].registration_count
                               = BagSum(registrations,
                                        {x \in BagToSet(registrations) : x[2] = e}))
        /\ \A i \in 1..Len(resp.body) :
               resp.body[i].event_id \in EventsOfFilter(resp.college_id)

(* C16: in the list eventPopularity returns, the registration_count of an  *)
(* entry is greater than or equal to that of the entry after it.           *)
C16_PopularityDescending ==
    (resp.op = "event_popularity") =>
        \A i \in 1..(Len(resp.body) - 1) :
            resp.body[i].registration_count >= resp.body[i + 1].registration_count

\* the event created later has strictly more Registrations and is listed first
C16_Witness ==
    /\ resp.op = "event_popularity"
    /\ Len(resp.body) = 2
    /\ resp.body[1].event_id > resp.body[2].event_id
    /\ resp.body[1].registration_count > resp.body[2].registration_count

(* C17: topActiveStudents returns at most limit entries (3 when no limit   *)
(* is given), of distinct students of the college asked for, in            *)
(* non-increasing order of attendance_count; each attendance_count is the  *)
(* number of Attendance rows of the student; no student of the filter left *)
(* out of the list has more Attendance rows than a student in it.          *)
C17_TopActiveStudents ==
    (resp.op = "top_active_students") =>
        LET n == IF resp.limit = <<>> THEN 3 ELSE resp.limit[1]
            listed == {resp.body[i].student_id : i \in 1..Len(resp.body)}
        IN  /\ Len(resp.body) <= n
            /\ Cardinality(listed) = Len(resp.body)
            /\ listed \subseteq StudentsOfFilter(resp.college_id)
            /\ \A i \in 1..(Len(resp.body) - 1) :
                   resp.body[i].attendance_count >= resp.body[i + 1].attendance_count
            /\ \A i \in 1..Len(resp.body) :
                   resp.body[i].attendance_count = AttendancesOf(resp.body[i].student_id)
            /\ \A s \in StudentsOfFilter(resp.college_id) \ listed :
                   \A i \in 1..Len(resp.body) :
                       AttendancesOf(s) <= resp.body[i].attendance_count

\* limit 1 cut the list: the student listed attended more events than another
\* student who attended one and is left out
C17_Witness ==
    /\ resp.op = "top_active_students" /\ resp.limit = <<1>>
    /\ Len(resp.body) = 1
    /\ resp.body[1].attendance_count = 2
    /\ \E s \in StudentsOfFilter(resp.college_id) :
           s # resp.body[1].student_id /\ AttendancesOf(s) = 1

(* C18: studentParticipation for an existing student without Registrations *)
(* is answered 200 with attendance_rate 0, the three counts 0 and the      *)
(* three lists empty.                                                      *)
C18_ParticipationWithoutRegistrations ==
    ( /\ resp.op = "student_participation"
      /\ resp.sid \in 1..Len(students)
      /\ \A x \in BagToSet(registrations) : x[1] # resp.sid )
    => /\ resp.status = 200
       /\ resp.body.attendance_rate = 0
       /\ resp.body.events_registered = 0
       /\ resp.body.events_attended = 0
       /\ resp.body.feedbacks_given = 0
       /\ resp.body.registered_events = EmptyBag
       /\ resp.body.attended_events = EmptyBag
       /\ resp.body.feedbacks = EmptyBag

\* the report of a student without Registrations was read while other
\* students have Registrations
C18_Witness ==
    /\ resp.op = "student_participation" /\ resp.status = 200
    /\ \A x \in BagToSet(registrations) : x[1] # resp.sid
    /\ registrations # EmptyBag

(* C20: a step that answers a report (eventPopularity, eventAttendance,    *)
(* studentParticipation, topActiveStudents, the dashboard view), with 200  *)
(* or with 404, leaves every table of the store as it was.                 *)
C20_ReportsReadOnly ==
    [][ (resp'.op \in ReportOps /\ resp' # resp) => (db' = db) ]_vars

\* a report was answered 404 over a store that holds workflow records
C20_Witness ==
    /\ resp.op \in ReportOps /\ resp.status = 404
    /\ registrations # EmptyBag /\ feedbacks # EmptyBag

----------------------------------------------------------------------------
(* C21: no two Students stored share an email, and a create_student        *)
(* request that is refused for its email is answered 409, also when two    *)
(* requests with the same email are interleaved: the only outcomes of      *)
(* create_student are 201, 400, 404 and 409.                               *)
C21_UniqueEmailConflict ==
    /\ \A i \in 1..Len(students), j \in 1..Len(students) :
           (i # j) => (students[i].email # students[j].email)
    /\ (resp.op = "create_student") => (resp.status \in {201, 400, 404, 409})

C23_CapacityPositive ==
    \A e \in 1..Len(events) : events[e].capacity >= 1

(* C25: with requests served one at a time, a register call for an event   *)
(* at full capacity is answered 409 when the student already holds a       *)
(* Registration for the event, and 404 when the student does not exist;    *)
(* neither is answered with the 400 of the capacity check.                 *)
C25_RegisterCheckOrder ==
    [][\A s \in 1..MaxStudents, e \in 1..Len(events) :
           ( /\ InFlight' = 0
             /\ resp'.op = "register" /\ resp'.sid = s /\ resp'.eid = e
             /\ BagSum(registrations, {x \in BagToSet(registrations) : x[2] = e})
                    >= events[e].capacity )
           => /\ (Reg(s, e) > 0) => (resp'.status = 409)
              /\ (s \notin 1..Len(students)) => (resp'.status = 404)
      ]_vars

\* a student registered for a full event registered again and got 409
C25_Witness ==
    /\ InFlight = 0
    /\ resp.op = "register" /\ resp.status = 409
    /\ resp.eid \in 1..Len(events)
    /\ Reg(resp.sid, resp.eid) > 0
    /\ BagSum(registrations, {x \in BagToSet(registrations) : x[2] = resp.eid})
           >= events[resp.eid].capacity

(* C26: with requests served one at a time, a feedback call that carries a *)
(* student_id is answered 400 when its rating is absent, 0 or 6, whether   *)
(* or not the pair has an Attendance or a Feedback, and is answered 409    *)
(* when its rating is 1 or 5 and the pair already has a Feedback.          *)
C26_FeedbackCheckOrder ==
    [][ ( /\ InFlight' = 0
          /\ resp'.op = "feedback" /\ resp'.sid # 0 )
        => /\ (resp'.rating \in {<<>>, <<0>>, <<6>>}) => (resp'.status = 400)
           /\ ( /\ resp'.rating \in {<<1>>, <<5>>}
                /\ Fb(resp'.sid, resp'.eid) > 0 ) => (resp'.status = 409)
      ]_vars

\* rating 6 was refused with 400 for a pair that has no Attendance, and
\* the store holds the Feedback of another pair
C26_Witness ==
    /\ InFlight = 0
    /\ resp.op = "feedback" /\ resp.rating = <<6>> /\ resp.status = 400
    /\ resp.sid # 0 /\ Att(resp.sid, resp.eid) = 0
    /\ feedbacks # EmptyBag

(* C27: the step that answers a workflow request with 201 adds one row for *)
(* the request's pair to the request's table (Registration, Attendance or  *)
(* Feedback with the request's rating) and leaves every other row and      *)
(* every other table, the events' capacities included, as they were.       *)
C27_OneRecordAdded ==
    [][ (InFlight' < InFlight /\ resp'.status = 201) =>
          /\ (resp'.op = "register") =>
                 /\ registrations' = registrations (+) SetToBag({<<resp'.sid, resp'.eid>>})
                 /\ UNCHANGED <<colleges, students, events, attendances, feedbacks>>
          /\ (resp'.op = "attendance") =>
                 /\ attendances' = attendances (+) SetToBag({<<resp'.sid, resp'.eid>>})
                 /\ UNCHANGED <<colleges, students, events, registrations, feedbacks>>
          /\ (resp'.op = "feedback") =>
                 /\ feedbacks' = feedbacks
                        (+) SetToBag({<<resp'.sid, resp'.eid, resp'.rating[1]>>})
                 /\ UNCHANGED <<colleges, students, events, registrations, attendances>>
      ]_vars

\* a second student was registered while the first one's records are stored
C27_Witness ==
    /\ resp.op = "register" /\ resp.status = 201
    /\ BagCardinality(registrations) >= 2
    /\ attendances # EmptyBag

\* the rows of a workflow table on events of one type
RowsOfType(table, t) == {x \in BagToSet(table) : events[x[2]].event_type = t}

\* the sum of the ratings of the Feedback rows on events of one type
RatingsOfType(t) ==
    FnSum([f \in RowsOfType(feedbacks, t) |-> f[3] * CopiesIn(f, feedbacks)])

(* C28: in every row of the dashboard's rollup per event type, the totals  *)
(* of registrations and attendances are the numbers of Registration and    *)
(* Attendance rows on events of the type, and the average rating is the    *)
(* sum of the ratings of the Feedback rows on events of the type divided   *)
(* by their number (no value when there is none).                          *)
C28_TypeRollupMean ==
    (resp.op = "web_reports") =>
        \A i \in 1..Len(resp.body.event_type_stats) :
            LET row == resp.body.event_type_stats[i]
                t == row.event_type
                n == BagSum(feedbacks, RowsOfType(feedbacks, t))
            IN  /\ row.total_registrations
                       = BagSum(registrations, RowsOfType(registrations, t))
                /\ row.total_attendances
                       = BagSum(attendances, RowsOfType(attendances, t))
                /\ IF n = 0
                   THEN row.average_rating = <<>>
                   ELSE /\ row.average_rating # <<>>
                        /\ row.average_rating[1] * n
                               = RatingsOfType(t) * row.average_rating[2]

(* C24: under fair scheduling every register, attendance or feedback       *)
(* request in flight, alone or with another request in flight, is          *)
(* eventually answered; the step that takes it out of flight sends one     *)
(* response, for this request, with one of the handler's outcomes.         *)
C24_EveryRequestCompletes ==
    /\ \A k \in LiveKeys : (PendingKey(k) > 0) ~> (PendingKey(k) = 0)
    /\ [][\A k \in LiveKeys :
             (PendingKey(k)' # PendingKey(k)) =>
                 \/ PendingKey(k) = 0 /\ PendingKey(k)' = 1 /\ resp' = resp
                 \/ /\ PendingKey(k) = 1 /\ PendingKey(k)' = 0
                    /\ resp'.op = k[1] /\ resp'.sid = k[2]
                    /\ resp'.eid = k[3] /\ resp'.rating = k[4]
                    /\ resp'.status \in {201, 400, 403, 404, 409, 500}
        ]_vars

\* a register request was answered while another request was in flight
C24_Witness ==
    /\ InFlight = 1
    /\ resp.op = "register" /\ resp.status = 400

(* C29: for every event the number of Feedback rows is at most the number  *)
(* of Attendance rows, which is at most the number of Registration rows,   *)
(* and the attendance_percentage of every eventAttendance response lies    *)
(* between 0 and 100 (0 and 10000 hundredths).                             *)
C29_PercentageWithinBounds ==
    /\ \A e \in 1..Len(events) :
           /\ BagSum(feedbacks, {x \in BagToSet(feedbacks) : x[2] = e})
                  <= BagSum(attendances, {x \in BagToSet(attendances) : x[2] = e})
           /\ BagSum(attendances, {x \in BagToSet(attendances) : x[2] = e})
                  <= BagSum(registrations, {x \in BagToSet(registrations) : x[2] = e})
    /\ (resp.op = "event_attendance" /\ resp.status = 200) =>
           (0 <= resp.body.attendance_percentage
               /\ resp.body.attendance_percentage <= 10000)

====
